---- MODULE Spec2Model ----
(***************************************************************************)
(* A model of the intarsia image pipeline (library crate `intarsia`):      *)
(* colour quantization (utils.rs: colour_distance, min_index,             *)
(* set_closest_colour), the grid overlay (utils.rs: add_grid_to_image),   *)
(* the nearest-neighbour down/up resample and the orchestration in        *)
(* Intarsia::new / read_image / transform_image / reduce_colours, the life *)
(* of a project directory under new, load and remove_project, and the     *)
(* `new` and `remove` subcommands of the command line program (main.rs).  *)
(*                                                                         *)
(* Images are records [w, h, px, axes]: px is the row-major sequence of   *)
(* RGB triples (pixel (x,y), 0-based, is px[y*w + x + 1]); axes tells     *)
(* whether the picture is the plotters canvas that embeds px.  The alpha  *)
(* channel is not modelled.  Option<T> is <<>> (None) or <<v>> (Some v).  *)
(***************************************************************************)
EXTENDS Integers, Sequences, FiniteSets, TLC

VARIABLES
    pc,              \* position inside the operation being run
    result,          \* what the operation returned: "None" while running
    stages,          \* history: the pipeline stages run so far, in order
    dirExists,       \* the project directory <projects_path>/<name> exists
    files,           \* the files of the project directory: name -> Option image
    srcFile,         \* what is found at image_path
    output_width,    \* argument of new: grid cells along x
    output_height,   \* argument of new: grid cells along y
    colours,         \* argument of new: requested number of colours
    add_axes,        \* argument of new
    original_image,  \* Intarsia.original_image (data)
    processed_image, \* Intarsia.processed_image (data)
    image,           \* the local buffer `image` of the running function
    palette,         \* the extractor's output (reduce_colours: palette)
    paletteSrc,      \* history: the buffer the palette was extracted from
    quantIn,         \* history: the buffer the quantizer loop received
    gridIn,          \* history: the buffer add_grid_to_image received
    gridLines        \* history: <<ys, xs>> of the lines add_grid_to_image drew

vars == <<pc, result, stages, dirExists, files, srcFile, output_width,
          output_height, colours, add_axes, original_image, processed_image,
          image, palette, paletteSrc, quantIn, gridIn, gridLines>>

(***************************************************************************)
(* Bounds of the model.                                                    *)
(***************************************************************************)
MaxPal == 2      \* longest palette the extractor returns
MaxPix == 2      \* longest pixel buffer of the quantizer specification
MaxGridDim == 5  \* largest width and height of the grid and resample specifications
MaxDim == 2      \* largest width and height of the picture at image_path
MaxGrid == 3     \* largest output_width and output_height

None == <<>>
Some(v) == <<v>>

Range(s) == {s[k] : k \in 1..Len(s)}

SeqsUpTo(S, lo, hi) == UNION {[1..n -> S] : n \in lo..hi}

NoImage == [w |-> 0, h |-> 0, px |-> <<>>, axes |-> FALSE]

\* The parts of the state a pure-function specification leaves alone.
QFiles == [n \in {"original.png", "resized_down.png", "resized_up.png",
                  "quantization_input.png", "quantized.png", "processed.png"}
           |-> None]

Idle ==
    /\ result = "None" /\ stages = <<>> /\ dirExists = TRUE /\ files = QFiles
    /\ srcFile = None /\ add_axes = FALSE
    /\ original_image = None /\ processed_image = None /\ paletteSrc = None

(***************************************************************************)
(* Single-precision arithmetic.  A non-negative f32 is <<m, e>>, the value *)
(* m * 2^e with 2^23 <= m < 2^24, or <<0, 0>> for zero.  Every operation   *)
(* rounds to nearest, ties to even, as IEEE 754 does.                      *)
(***************************************************************************)
F32Precision == 24

F32Top == 2 ^ F32Precision          \* mantissas are below this
F32Low == 2 ^ (F32Precision - 1)    \* and at least this

F32Zero == <<0, 0>>

F32Less(a, b) ==
    IF a[1] = 0 THEN b[1] > 0
    ELSE IF b[1] = 0 THEN FALSE
    ELSE a[2] < b[2] \/ (a[2] = b[2] /\ a[1] < b[1])

\* <<m, e>> after a rounding step that may have carried into bit 24.
F32Carry(m, e) == IF m = F32Top THEN <<F32Low, e + 1>> ELSE <<m, e>>

\* Integer square root with remainder, one base-4 digit of n at a time:
\* <<p, r>> with p = floor(sqrt(n)) and r = n - p*p.
RECURSIVE SqrtInt(_)
SqrtInt(n) ==
    IF n = 0 THEN <<0, 0>>
    ELSE LET s == SqrtInt(n \div 4)
             r == 4 * s[2] + (n % 4)
             t == 4 * s[1] + 1
         IN  IF r >= t THEN <<2 * s[1] + 1, r - t>> ELSE <<2 * s[1], r>>

\* The same recurrence continued into the fraction until p has one bit more
\* than a mantissa: sqrt(n) lies in [p, p+1) * 2^e, and is p * 2^e iff r = 0.
RECURSIVE SqrtFrac(_, _, _)
SqrtFrac(p, r, e) ==
    IF p >= F32Top THEN <<p, r, e>>
    ELSE LET t == 4 * p + 1
         IN  IF 4 * r >= t THEN SqrtFrac(2 * p + 1, 4 * r - t, e - 1)
                           ELSE SqrtFrac(2 * p, 4 * r, e - 1)

\* f32::sqrt of a non-negative integer below 2^24 (exactly representable).
\* The guard bit p % 2 decides the rounding: a square root that is not exact
\* is irrational, so it is never a tie.
F32Sqrt(n) ==
    IF n = 0 THEN F32Zero
    ELSE LET i == SqrtInt(n)
             f == SqrtFrac(i[1], i[2], 0)
         IN  F32Carry((f[1] \div 2) + (f[1] % 2), f[3] + 1)

\* num doubled until num / den has a full mantissa in front of the point.
RECURSIVE DivScale(_, _, _)
DivScale(num, den, e) ==
    IF num \div den >= F32Low THEN <<num, e>> ELSE DivScale(2 * num, den, e - 1)

\* a as f32 / b as f32 for integers a, b > 0 with a / b below 2^24.
F32Div(a, b) ==
    LET s == DivScale(a, b, 0)
        q == s[1] \div b
        rem == s[1] % b
        up == IF 2 * rem > b THEN 1 ELSE IF 2 * rem = b THEN q % 2 ELSE 0
    IN  F32Carry(q + up, s[2])

\* The number of low bits v has beyond a mantissa.
RECURSIVE ExtraBits(_)
ExtraBits(v) == IF v < F32Top THEN 0 ELSE 1 + ExtraBits(v \div 2)

\* i as f32 * x for an integer i >= 0 (exactly representable) and an f32 x.
F32MulInt(i, x) ==
    LET v == i * x[1]
        k == ExtraBits(v)
        q == v \div (2 ^ k)
        rem == v % (2 ^ k)
        half == 2 ^ (k - 1)
        up == IF k = 0 THEN 0
              ELSE IF rem > half THEN 1 ELSE IF rem = half THEN q % 2 ELSE 0
    IN  IF v = 0 THEN F32Zero ELSE F32Carry(q + up, x[2] + k)

\* x / 2: exact, only the exponent changes.
F32Half(x) == IF x[1] = 0 THEN F32Zero ELSE <<x[1], x[2] - 1>>

\* The integer part of a non-negative f32 (`as i32`, and floor()).
F32Floor(x) ==
    IF x[1] = 0 \/ -x[2] >= F32Precision THEN 0
    ELSE IF x[2] >= 0 THEN x[1] * (2 ^ x[2])
    ELSE x[1] \div (2 ^ (-x[2]))

(***************************************************************************)
(* utils.rs: colour_distance, min_index, set_closest_colour.               *)
(***************************************************************************)
\* The channel differences, their squares and the sum are integers below
\* 2^24, which f32 represents exactly: only the square root rounds.
SquaredDistance(c1, c2) ==
    (c2[1] - c1[1]) * (c2[1] - c1[1])
  + (c2[2] - c1[2]) * (c2[2] - c1[2])
  + (c2[3] - c1[3]) * (c2[3] - c1[3])

colour_distance_no_blue(c1, c2) ==
    F32Sqrt((c2[1] - c1[1]) * (c2[1] - c1[1]) + (c2[2] - c1[2]) * (c2[2] - c1[2]))

colour_distance(c1, c2) == F32Sqrt(SquaredDistance(c1, c2))

\* The loop of min_index: i is the best index so far, j the index visited.
\* Indices are 1-based here (Rust's index plus one); on an empty array the
\* loop body never runs and the initial i is returned.
RECURSIVE MinIndexLoop(_, _, _)
MinIndexLoop(array, i, j) ==
    IF j > Len(array) THEN i
    ELSE IF F32Less(array[j], array[i]) THEN MinIndexLoop(array, j, j + 1)
    ELSE MinIndexLoop(array, i, j + 1)

RECURSIVE MinIndexLoopLast(_, _, _)
MinIndexLoopLast(array, i, j) ==
    IF j > Len(array) THEN i
    ELSE IF ~F32Less(array[i], array[j]) THEN MinIndexLoopLast(array, j, j + 1)
    ELSE MinIndexLoopLast(array, i, j + 1)

min_index_last(array) == MinIndexLoopLast(array, 1, 1)

min_index_max(array) ==
    CHOOSE i \in 1..Len(array) : \A j \in 1..Len(array) : ~F32Less(array[i], array[j])

min_index(array) == MinIndexLoop(array, 1, 1)

\* The new value of the pixel.  palette[min_index] is out of range when the
\* palette slice is empty: the program panics, modelled as no value (None).
set_closest_colour(pixel, pal) ==
    LET distances == [k \in 1..Len(pal) |-> colour_distance(pal[k], pixel)]
    IN  IF Len(pal) = 0 THEN None ELSE Some(pal[min_index(distances)])

\* &palette[0..colours]; defined for n <= Len(pal), a panic beyond.
PaletteSliceWhole(pal, n) == pal

PaletteSlice(pal, n) == SubSeq(pal, 1, n)

\* The loop over enumerate_pixels_mut: every pixel, independently.
QuantizePanics(img, pal) == Len(img.px) > 0 /\ Len(pal) = 0

QuantizeBuffer(img, pal) ==
    [img EXCEPT !.px = [k \in 1..Len(img.px) |-> set_closest_colour(img.px[k], pal)[1]]]

(***************************************************************************)
(* utils.rs: add_grid_to_image.                                            *)
(***************************************************************************)
Black == <<0, 0, 0>>

\* The offsets of the n lines drawn across an image side of `size` pixels:
\* the i-th (i = 0..n-1) at (i as f32 * (size as f32 / n as f32)) as i32,
\* the start coordinate that imageproc's BresenhamLineIter truncates.  With
\* n = 0 the loop has no iteration (and the infinite pitch is never used).
LineOffsetsFloorPitch(size, n) == [i \in 1..n |-> (i - 1) * (size \div n)]

LineOffsets(size, n) ==
    [i \in 1..n |-> F32Floor(F32MulInt(i - 1, F32Div(size, n)))]

PixelX(img, k) == (k - 1) % img.w
PixelY(img, k) == (k - 1) \div img.w

\* A grid whose lines are two pixels thick.
add_grid_thick(img, grid_width, grid_height) ==
    LET ys == Range(LineOffsets(img.h, grid_height))
        xs == Range(LineOffsets(img.w, grid_width))
    IN  [img EXCEPT !.px = [k \in 1..Len(img.px) |->
            IF \/ PixelY(img, k) \in ys \/ PixelX(img, k) \in xs
               \/ PixelY(img, k) - 1 \in ys \/ PixelX(img, k) - 1 \in xs
            THEN Black ELSE img.px[k]]]

\* draw_line_segment_mut draws the points of the segment that are inside
\* the canvas: a horizontal line from x = 0 to x = width covers its row, a
\* vertical one from y = 0 to y = height its column.
add_grid_to_image(img, grid_width, grid_height) ==
    LET ys == Range(LineOffsets(img.h, grid_height))
        xs == Range(LineOffsets(img.w, grid_width))
    IN  [img EXCEPT !.px = [k \in 1..Len(img.px) |->
            IF PixelY(img, k) \in ys \/ PixelX(img, k) \in xs
            THEN Black ELSE img.px[k]]]

(***************************************************************************)
(* image::DynamicImage::resize_exact with FilterType::Nearest, as the      *)
(* image crate's sampling does it: the filter has support 0, so an output  *)
(* pixel takes the one input pixel under its centre.                       *)
(***************************************************************************)
Min(a, b) == IF a < b THEN a ELSE b

NearestIndexWrap(out, n_in, n_out) == (out * (n_in + 1)) % n_in

\* The input index for output index `out` (0-based) when a side of n_in > 0
\* pixels becomes n_out > 0: ratio = n_in as f32 / n_out as f32,
\* inputx = (out as f32 + 0.5) * ratio, left = clamp(floor(inputx), 0, n_in-1).
NearestIndex(out, n_in, n_out) ==
    Min(F32Floor(F32MulInt(2 * out + 1, F32Half(F32Div(n_in, n_out)))), n_in - 1)

\* Rows are sampled first, then columns; with no width or height asked for
\* the result has no pixel.
ResizeExact(img, nwidth, nheight) ==
    [w |-> nwidth, h |-> nheight, axes |-> FALSE,
     px |-> [k \in 1..(nwidth * nheight) |->
               img.px[NearestIndex((k - 1) \div nwidth, img.h, nheight) * img.w
                      + NearestIndex((k - 1) % nwidth, img.w, nwidth) + 1]]]

(***************************************************************************)
(* utils.rs: plot_image_with_axes.  The canvas is 64 pixels wider and      *)
(* higher than the picture it embeds.                                      *)
(***************************************************************************)
AxisMargin == 64

AxesCanvas(img) ==
    [w |-> img.w + AxisMargin, h |-> img.h + AxisMargin, px |-> img.px, axes |-> TRUE]

(***************************************************************************)
(* Test pictures: w x h pixels in three colours, none of them black, laid  *)
(* out in stripes or diagonals.                                            *)
(***************************************************************************)
ImgColours == <<(<<255, 0, 0>>), (<<0, 0, 255>>), (<<0, 255, 0>>)>>

Picture(w, h, a, b, c) ==
    [w |-> w, h |-> h, axes |-> FALSE,
     px |-> [k \in 1..(w * h) |->
               ImgColours[((a * ((k - 1) % w) + b * ((k - 1) \div w) + c) % 3) + 1]]]

\* What blur may return for a w x h picture, and the picture at image_path.
Pictures(w, h) == {Picture(w, h, a, b, 0) : a \in 0..1, b \in 0..1}
SourcePicture(w, h) == Picture(w, h, 1, 1, 1)

\* The colours the palette extractor may return.
PalColours == {ImgColours[1], ImgColours[2]}

(***************************************************************************)
(* Intarsia::new, read_image, transform_image and reduce_colours, one      *)
(* action per step.  A step that saves or opens a file either succeeds or  *)
(* fails, as the file system decides.                                      *)
(***************************************************************************)
Save(name, img) == files' = [files EXCEPT ![name] = Some(img)]

Return(r) == result' = r /\ pc' = "done"

\* new without the existence test of line 84: an existing directory is
\* taken over.
NewProjectNoCheck ==
    /\ pc = "new"
    /\ \/ dirExists' = TRUE /\ pc' = "read_image" /\ UNCHANGED result
       \/ ~dirExists /\ Return("Generic") /\ UNCHANGED dirExists
    /\ UNCHANGED <<stages, files, srcFile, output_width, output_height, colours,
                   add_axes, original_image, processed_image, image, palette,
                   paletteSrc, quantIn, gridIn, gridLines>>

\* new, lines 82-93: the directory check and create_dir.
NewProject ==
    /\ pc = "new"
    /\ \/ dirExists /\ Return("ExistsAlready") /\ UNCHANGED dirExists
       \/ ~dirExists /\ dirExists' = TRUE /\ pc' = "read_image" /\ UNCHANGED result
       \/ ~dirExists /\ Return("Generic") /\ UNCHANGED dirExists
    /\ UNCHANGED <<stages, files, srcFile, output_width, output_height, colours,
                   add_axes, original_image, processed_image, image, palette,
                   paletteSrc, quantIn, gridIn, gridLines>>

\* read_image followed by a removal of the project when it fails.
ReadImageRollback ==
    /\ pc = "read_image"
    /\ \/ srcFile \in {None, Some(NoImage)} /\ Return("Generic")
          /\ dirExists' = FALSE
          /\ UNCHANGED <<files, original_image>>
       \/ srcFile \notin {None, Some(NoImage)}
          /\ Save("original.png", srcFile[1])
          /\ original_image' = srcFile
          /\ pc' = "blur" /\ UNCHANGED <<result, dirExists>>
    /\ UNCHANGED <<stages, srcFile, output_width, output_height,
                   colours, add_axes, processed_image, image, palette,
                   paletteSrc, quantIn, gridIn, gridLines>>

\* read_image: open, decode, save as original.png, keep in memory.
ReadImage ==
    /\ pc = "read_image"
    /\ \/ srcFile = None /\ Return("Generic")
          /\ UNCHANGED <<files, original_image>>
       \/ srcFile = Some(NoImage) /\ Return("DecodingError")
          /\ UNCHANGED <<files, original_image>>
       \/ srcFile # None /\ srcFile # Some(NoImage) /\ Return("Generic")
          /\ UNCHANGED <<files, original_image>>
       \/ srcFile # None /\ srcFile # Some(NoImage)
          /\ Save("original.png", srcFile[1])
          /\ original_image' = srcFile
          /\ pc' = "blur" /\ UNCHANGED result
    /\ UNCHANGED <<stages, dirExists, srcFile, output_width, output_height,
                   colours, add_axes, processed_image, image, palette,
                   paletteSrc, quantIn, gridIn, gridLines>>

\* transform_image, lines 268-271: the clone of the original is blurred.
\* The blurred picture has the size of the original; its content is the
\* blur filter's business.
Blur ==
    /\ pc = "blur"
    /\ image' \in Pictures(original_image[1].w, original_image[1].h)
    /\ stages' = Append(stages, "blur")
    /\ pc' = "resize_down"
    /\ UNCHANGED <<result, dirExists, files, srcFile, output_width,
                   output_height, colours, add_axes, original_image,
                   processed_image, palette, paletteSrc, quantIn, gridIn,
                   gridLines>>

\* transform_image, lines 272-277.  A picture without pixels cannot be
\* encoded as PNG: its save fails.
ResizeDown ==
    /\ pc = "resize_down"
    /\ image' = ResizeExact(image, output_width, output_height)
    /\ stages' = Append(stages, "downsample")
    /\ \/ output_width > 0 /\ output_height > 0
          /\ Save("resized_down.png", image')
          /\ pc' = "resize_up" /\ UNCHANGED result
       \/ Return("Generic") /\ UNCHANGED files
    /\ UNCHANGED <<dirExists, srcFile, output_width, output_height, colours,
                   add_axes, original_image, processed_image, palette,
                   paletteSrc, quantIn, gridIn, gridLines>>

\* transform_image, lines 278-283: back to the original width and height.
ResizeUp ==
    /\ pc = "resize_up"
    /\ image' = ResizeExact(image, original_image[1].w, original_image[1].h)
    /\ stages' = Append(stages, "upsample")
    /\ \/ Save("resized_up.png", image') /\ pc' = "reduce_colours" /\ UNCHANGED result
       \/ Return("Generic") /\ UNCHANGED files
    /\ UNCHANGED <<dirExists, srcFile, output_width, output_height, colours,
                   add_axes, original_image, processed_image, palette,
                   paletteSrc, quantIn, gridIn, gridLines>>

\* reduce_colours, lines 214-231: the buffer goes through
\* quantization_input.png and the palette is extracted from what was read
\* back.  The extractor returns any number of colours up to MaxPal.  An
\* error of reduce_colours reaches the caller as ColourReductionErr
\* (transform_image, line 286).
ExtractPaletteFromOriginal ==
    /\ pc = "reduce_colours"
    /\ \/ /\ Save("quantization_input.png", image)
          /\ image' = original_image[1]
          /\ paletteSrc' = Some(image')
          /\ palette' \in SeqsUpTo(PalColours, 0, MaxPal)
          /\ pc' = "quantize" /\ UNCHANGED result
       \/ Return("ColourReductionErr")
          /\ UNCHANGED <<files, image, paletteSrc, palette>>
    /\ UNCHANGED <<stages, dirExists, srcFile, output_width, output_height,
                   colours, add_axes, original_image, processed_image, quantIn,
                   gridIn, gridLines>>

ExtractPalette ==
    /\ pc = "reduce_colours"
    /\ \/ /\ Save("quantization_input.png", image)
          /\ image' = files'["quantization_input.png"][1]
          /\ paletteSrc' = Some(image')
          /\ palette' \in SeqsUpTo(PalColours, 0, MaxPal)
          /\ pc' = "quantize" /\ UNCHANGED result
       \/ Return("ColourReductionErr")
          /\ UNCHANGED <<files, image, paletteSrc, palette>>
    /\ UNCHANGED <<stages, dirExists, srcFile, output_width, output_height,
                   colours, add_axes, original_image, processed_image, quantIn,
                   gridIn, gridLines>>

\* reduce_colours, lines 232-247: every pixel is set to its closest colour
\* among palette[0..colours], and the buffer goes through quantized.png.
\* The slice panics when the palette has fewer than `colours` entries, and
\* set_closest_colour panics on an empty slice.
QuantizePixels ==
    /\ pc = "quantize"
    /\ IF colours <= Len(palette) /\ ~QuantizePanics(image, PaletteSlice(palette, colours))
       THEN /\ quantIn' = Some(image)
            /\ image' = QuantizeBuffer(image, PaletteSlice(palette, colours))
            /\ stages' = Append(stages, "quantize")
            /\ \/ Save("quantized.png", image') /\ pc' = "add_grid" /\ UNCHANGED result
               \/ Return("ColourReductionErr") /\ UNCHANGED files
       ELSE /\ Return("Panic")
            /\ UNCHANGED <<stages, files, image, quantIn>>
    /\ UNCHANGED <<dirExists, srcFile, output_width, output_height, colours,
                   add_axes, original_image, processed_image, palette,
                   paletteSrc, gridIn, gridLines>>

\* transform_image, lines 287-292: the grid, then the save as processed.png.
AddGrid ==
    /\ pc = "add_grid"
    /\ gridIn' = Some(image)
    /\ gridLines' = <<LineOffsets(image.h, output_height),
                      LineOffsets(image.w, output_width)>>
    /\ image' = add_grid_to_image(image, output_width, output_height)
    /\ stages' = Append(stages, "grid")
    /\ \/ Save("processed.png", image') /\ pc' = "axes" /\ UNCHANGED result
       \/ Return("Generic") /\ UNCHANGED files
    /\ UNCHANGED <<dirExists, srcFile, output_width, output_height, colours,
                   add_axes, original_image, processed_image, palette,
                   paletteSrc, quantIn>>

\* transform_image, lines 293-301: plot_image_with_axes reads processed.png
\* and writes the canvas over it; its error is unwrapped, a panic.
PlotAxes ==
    /\ pc = "axes" /\ add_axes
    /\ \/ /\ Save("processed.png", AxesCanvas(files["processed.png"][1]))
          /\ stages' = Append(stages, "axes")
          /\ pc' = "record" /\ UNCHANGED result
       \/ Return("Panic") /\ UNCHANGED <<files, stages>>
    /\ UNCHANGED <<dirExists, srcFile, output_width, output_height, colours,
                   add_axes, original_image, processed_image, image, palette,
                   paletteSrc, quantIn, gridIn, gridLines>>

SkipAxes ==
    /\ pc = "axes" /\ ~add_axes
    /\ pc' = "record"
    /\ UNCHANGED <<result, stages, dirExists, files, srcFile, output_width,
                   output_height, colours, add_axes, original_image,
                   processed_image, image, palette, paletteSrc, quantIn,
                   gridIn, gridLines>>

\* transform_image, lines 302-307, and new, line 96.
Record ==
    /\ pc = "record"
    /\ processed_image' = Some(image)
    /\ stages' = Append(stages, "record")
    /\ Return("Ok")
    /\ UNCHANGED <<dirExists, files, srcFile, output_width, output_height,
                   colours, add_axes, original_image, image, palette,
                   paletteSrc, quantIn, gridIn, gridLines>>

Init ==
    /\ pc = "new" /\ result = "None" /\ stages = <<>>
    /\ dirExists \in BOOLEAN
    /\ files = QFiles
    /\ srcFile \in {None, Some(NoImage)}
                   \cup {Some(SourcePicture(w, h)) : w \in 1..MaxDim, h \in 1..MaxDim}
    /\ output_width \in 0..MaxGrid
    /\ output_height \in 0..MaxGrid
    /\ colours \in 0..MaxPal
    /\ add_axes \in BOOLEAN
    /\ original_image = None /\ processed_image = None
    /\ image = NoImage /\ palette = <<>> /\ paletteSrc = None
    /\ quantIn = None /\ gridIn = None /\ gridLines = <<<<>>, <<>>>>

Next ==
    \/ NewProject
    \/ ReadImage
    \/ Blur
    \/ ResizeDown
    \/ ResizeUp
    \/ ExtractPalette
    \/ QuantizePixels
    \/ AddGrid
    \/ PlotAxes
    \/ SkipAxes
    \/ Record

Spec == Init /\ [][Next]_vars

(***************************************************************************)
(* The grid overlay as a pure function: a picture and a grid are drawn and *)
(* the grid step is applied.                                               *)
(***************************************************************************)
\* The end-to-end scenario: a solid red 100 x 100 picture, quantized with
\* the palette [red, blue], to be overlaid with a 5 x 5 grid.
SolidRed ==
    [w |-> 100, h |-> 100, axes |-> FALSE, px |-> [k \in 1..(100 * 100) |-> ImgColours[1]]]

ScenarioPicture == QuantizeBuffer(SolidRed, <<ImgColours[1], ImgColours[2]>>)

InitGrid ==
    /\ Idle
    /\ pc = "add_grid"
    /\ \/ /\ \E w \in 1..MaxGridDim, h \in 1..MaxGridDim : image \in Pictures(w, h)
          /\ output_width \in 0..MaxGrid
          /\ output_height \in 0..MaxGrid
       \/ /\ image = ScenarioPicture
          /\ output_width = 5 /\ output_height = 5
    /\ colours = 0 /\ palette = <<>> /\ quantIn = None
    /\ gridIn = None /\ gridLines = <<<<>>, <<>>>>

NextGrid == AddGrid

SpecGrid == InitGrid /\ [][NextGrid]_vars

(***************************************************************************)
(* The down-then-up resample as a pure function: a blurred picture of the  *)
(* size of the original and a positive grid are drawn.                     *)
(***************************************************************************)
InitResample ==
    /\ pc = "resize_down" /\ result = "None" /\ stages = <<"blur">>
    /\ dirExists = TRUE /\ files = QFiles /\ add_axes = FALSE
    /\ \E w \in 1..MaxGridDim, h \in 1..MaxGridDim :
          /\ srcFile = Some(SourcePicture(w, h))
          /\ original_image = srcFile
          /\ image \in Pictures(w, h)
    /\ output_width \in 1..MaxGrid
    /\ output_height \in 1..MaxGrid
    /\ processed_image = None /\ paletteSrc = None
    /\ colours = 0 /\ palette = <<>> /\ quantIn = None
    /\ gridIn = None /\ gridLines = <<<<>>, <<>>>>

NextResample == ResizeDown \/ ResizeUp

SpecResample == InitResample /\ [][NextResample]_vars

GridDrawn == gridIn # None

\* C7 as stated: grid_height horizontal lines at i * floor(height /
\* grid_height) and grid_width vertical lines at j * floor(width /
\* grid_width), all distinct.
C7_FloorPitch ==
    (GridDrawn /\ output_width > 0 /\ output_height > 0) =>
        /\ gridLines[1] = [i \in 1..output_height |-> (i - 1) * (image.h \div output_height)]
        /\ gridLines[2] = [j \in 1..output_width |-> (j - 1) * (image.w \div output_width)]
        /\ Cardinality(Range(gridLines[1])) = output_height
        /\ Cardinality(Range(gridLines[2])) = output_width

\* C7 amended: the pitch is the fractional quotient.  grid_height
\* horizontal lines are drawn, the i-th at floor(i * height / grid_height),
\* and grid_width vertical lines, the j-th at floor(j * width / grid_width):
\* the first at offset 0, the last before the far border, and where the grid
\* divides the side at i * (side / grid); they are pairwise distinct when
\* the grid does not exceed the side.
C7_FractionalPitch ==
    (GridDrawn /\ output_width > 0 /\ output_height > 0) =>
        /\ gridLines[1] = [i \in 1..output_height |-> ((i - 1) * image.h) \div output_height]
        /\ gridLines[2] = [j \in 1..output_width |-> ((j - 1) * image.w) \div output_width]
        /\ gridLines[1][1] = 0 /\ gridLines[2][1] = 0
        /\ \A y \in Range(gridLines[1]) : y < image.h
        /\ \A x \in Range(gridLines[2]) : x < image.w
        /\ output_height <= image.h => Cardinality(Range(gridLines[1])) = output_height
        /\ output_width <= image.w => Cardinality(Range(gridLines[2])) = output_width
        /\ image.h % output_height = 0 =>
              gridLines[1] = [i \in 1..output_height |-> (i - 1) * (image.h \div output_height)]
        /\ image.w % output_width = 0 =>
              gridLines[2] = [j \in 1..output_width |-> (j - 1) * (image.w \div output_width)]

\* A 5-pixel side with 3 lines: offsets 0, 1, 3, where the floor pitch
\* would give 0, 1, 2.
C7_Witness ==
    /\ GridDrawn /\ image.h = 5 /\ output_height = 3 /\ output_width > 0
    /\ gridLines[1] = <<0, 1, 3>>

(***************************************************************************)
(* The quantizer as a pure function: a buffer and a non-empty palette are  *)
(* drawn, and the quantizer is applied twice.                              *)
(***************************************************************************)
QColours == {<<255, 255, 255>>, <<100, 100, 100>>, <<110, 100, 100>>,
             <<100, 90, 100>>, <<100, 100, 110>>}

InitQuant ==
    /\ Idle
    /\ pc = "quantize_0"
    /\ output_width = 0 /\ output_height = 0
    /\ gridIn = None /\ gridLines = <<<<>>, <<>>>>
    /\ palette \in SeqsUpTo(QColours, 1, MaxPal)
    /\ colours = Len(palette)
    /\ \E px \in SeqsUpTo(QColours, 1, MaxPix) :
           image = [w |-> Len(px), h |-> 1, px |-> px, axes |-> FALSE]
    /\ quantIn = None

Quantize ==
    /\ pc \in {"quantize_0", "quantize_1"}
    /\ quantIn' = Some(image)
    /\ image' = QuantizeBuffer(image, SubSeq(palette, 1, colours))
    /\ pc' = IF pc = "quantize_0" THEN "quantize_1" ELSE "quantize_2"
    /\ UNCHANGED <<result, stages, dirExists, files, srcFile, output_width,
                   output_height, colours, add_axes, original_image,
                   processed_image, palette, paletteSrc, gridIn, gridLines>>

NextQuant == Quantize

SpecQuant == InitQuant /\ [][NextQuant]_vars

(***************************************************************************)
(* The life of a project directory: new, load and remove_project called    *)
(* one after the other on the same name and projects_path.  A file that is *)
(* in the directory was written by the pipeline and decodes.               *)
(***************************************************************************)
\* What may be found at image_path: nothing, a file that does not decode, or
\* a picture.
SourceFiles ==
    {None, Some(NoImage)}
    \cup {Some(SourcePicture(w, h)) : w \in 1..MaxDim, h \in 1..MaxDim}

\* The caller invokes Intarsia::new again, on the same grid and number of
\* colours and with the same add_axes, with any image_path.
CallNew ==
    /\ pc = "done"
    /\ srcFile' \in SourceFiles
    /\ pc' = "new" /\ result' = "None" /\ stages' = <<>>
    /\ original_image' = None /\ processed_image' = None
    /\ image' = NoImage /\ palette' = <<>> /\ paletteSrc' = None
    /\ quantIn' = None /\ gridIn' = None /\ gridLines' = <<<<>>, <<>>>>
    /\ UNCHANGED <<dirExists, files, output_width, output_height, colours,
                   add_axes>>

\* Intarsia::load accepting a directory without processed.png.
LoadLenient ==
    /\ pc = "done"
    /\ IF ~dirExists
       THEN result' = "DoesNotExist" /\ original_image' = None /\ processed_image' = None
       ELSE IF files["original.png"] = None
       THEN result' = "Generic" /\ original_image' = None /\ processed_image' = None
       ELSE /\ result' = "Loaded"
            /\ original_image' = files["original.png"]
            /\ processed_image' = files["processed.png"]
    /\ UNCHANGED <<pc, stages, dirExists, files, srcFile, output_width,
                   output_height, colours, add_axes, image, palette, paletteSrc,
                   quantIn, gridIn, gridLines>>

\* Intarsia::load: the directory check, then original.png and processed.png
\* are opened and decoded; the project returned holds both.  On an error no
\* project is returned.
Load ==
    /\ pc = "done"
    /\ IF ~dirExists
       THEN result' = "DoesNotExist" /\ original_image' = None /\ processed_image' = None
       ELSE IF files["original.png"] = None \/ files["processed.png"] = None
       THEN result' = "Generic" /\ original_image' = None /\ processed_image' = None
       ELSE /\ result' = "Loaded"
            /\ original_image' = files["original.png"]
            /\ processed_image' = files["processed.png"]
    /\ UNCHANGED <<pc, stages, dirExists, files, srcFile, output_width,
                   output_height, colours, add_axes, image, palette, paletteSrc,
                   quantIn, gridIn, gridLines>>

\* The caller holds a project: the last call returned one, or was
\* remove_project on one.
Held == result \in {"Ok", "Loaded", "Removed"}

\* remove_project that empties the directory and leaves it in place.
RemoveProjectFilesOnly ==
    /\ pc = "done" /\ Held
    /\ files' = QFiles /\ result' = "Removed"
    /\ UNCHANGED <<pc, stages, dirExists, srcFile, output_width, output_height,
                   colours, add_axes, original_image, processed_image, image,
                   palette, paletteSrc, quantIn, gridIn, gridLines>>

\* remove_project: remove_dir_all if the path exists; its error is
\* unwrapped, a panic.
RemoveProject ==
    /\ pc = "done" /\ Held
    /\ \/ dirExists /\ dirExists' = FALSE /\ files' = QFiles /\ result' = "Removed"
       \/ dirExists /\ result' = "Panic" /\ UNCHANGED <<dirExists, files>>
       \/ ~dirExists /\ result' = "Removed" /\ UNCHANGED <<dirExists, files>>
    /\ UNCHANGED <<pc, stages, srcFile, output_width, output_height, colours,
                   add_axes, original_image, processed_image, image, palette,
                   paletteSrc, quantIn, gridIn, gridLines>>

NextLife ==
    \/ Next
    \/ CallNew
    \/ Load
    \/ RemoveProject

SpecLife == Init /\ [][NextLife]_vars

(***************************************************************************)
(* The command line program (main.rs): the `new` and `remove` subcommands  *)
(* on one project name, one process after the other.  Its Project has the  *)
(* pipeline of the library with the axes always plotted; every error is    *)
(* Error::External.  result is how the process ended: "Exit0", "Exit1"     *)
(* (process::exit(1)) or "Exit101" (a panic).                              *)
(***************************************************************************)
Exit(status) == result' = status /\ pc' = "exit"

\* main, lines 363-368, and Project::new, lines 73-101.
CliNew ==
    /\ pc = "cli_new"
    /\ \/ dirExists /\ Exit("Exit1") /\ UNCHANGED dirExists
       \/ ~dirExists /\ dirExists' = TRUE /\ pc' = "cli_read_image" /\ UNCHANGED result
       \/ ~dirExists /\ Exit("Exit1") /\ UNCHANGED dirExists
    /\ UNCHANGED <<stages, files, srcFile, output_width, output_height, colours,
                   add_axes, original_image, processed_image, image, palette,
                   paletteSrc, quantIn, gridIn, gridLines>>

\* main, lines 370-377, and Project::read_image: on Err the program goes on
\* to remove the project.
CliReadImage ==
    /\ pc = "cli_read_image"
    /\ \/ /\ srcFile \in {None, Some(NoImage)}
          /\ pc' = "cli_rollback" /\ UNCHANGED <<files, original_image>>
       \/ /\ srcFile \notin {None, Some(NoImage)}
          /\ pc' = "cli_rollback" /\ UNCHANGED <<files, original_image>>
       \/ /\ srcFile \notin {None, Some(NoImage)}
          /\ Save("original.png", srcFile[1])
          /\ original_image' = srcFile
          /\ pc' = "cli_transform"
    /\ UNCHANGED <<result, stages, dirExists, srcFile, output_width, output_height,
                   colours, add_axes, processed_image, image, palette,
                   paletteSrc, quantIn, gridIn, gridLines>>

\* main, lines 378-390, and Project::transform_image, lines 259-302, as one
\* step.  An Err (a save or a read back failed; an empty picture cannot be
\* saved) goes on to remove the project.  The palette slice or the palette
\* index out of range, and the unwrap of plot_image_with_axes, panic where
\* they are, with the files written so far in place.
CliTransformImage ==
    /\ pc = "cli_transform"
    /\ \E blurred \in Pictures(original_image[1].w, original_image[1].h),
          pal \in SeqsUpTo(PalColours, 0, MaxPal) :
          LET down == ResizeExact(blurred, output_width, output_height)
              up == ResizeExact(down, original_image[1].w, original_image[1].h)
              fits == colours <= Len(pal) /\ ~QuantizePanics(up, PaletteSlice(pal, colours))
              grid == add_grid_to_image(QuantizeBuffer(up, PaletteSlice(pal, colours)),
                                        output_width, output_height)
              resampled == [files EXCEPT !["resized_down.png"] = Some(down),
                                         !["resized_up.png"] = Some(up),
                                         !["quantization_input.png"] = Some(up)]
          IN  \/ /\ pc' = "cli_rollback"
                 /\ UNCHANGED <<result, files, processed_image, image, palette>>
              \/ /\ output_width > 0 /\ output_height > 0 /\ ~fits
                 /\ files' = resampled
                 /\ image' = up /\ palette' = pal
                 /\ Exit("Exit101") /\ UNCHANGED processed_image
              \/ /\ output_width > 0 /\ output_height > 0 /\ fits
                 /\ files' = [resampled EXCEPT
                                 !["quantized.png"] = Some(QuantizeBuffer(up, PaletteSlice(pal, colours))),
                                 !["processed.png"] = Some(grid)]
                 /\ image' = grid /\ palette' = pal
                 /\ Exit("Exit101") /\ UNCHANGED processed_image
              \/ /\ output_width > 0 /\ output_height > 0 /\ fits
                 /\ files' = [resampled EXCEPT
                                 !["quantized.png"] = Some(QuantizeBuffer(up, PaletteSlice(pal, colours))),
                                 !["processed.png"] = Some(AxesCanvas(grid))]
                 /\ image' = grid /\ palette' = pal
                 /\ processed_image' = Some(grid)
                 /\ Exit("Exit0")
    /\ UNCHANGED <<stages, dirExists, srcFile, output_width, output_height,
                   colours, add_axes, original_image, paletteSrc, quantIn,
                   gridIn, gridLines>>

\* main, lines 373-374 and 381-382: remove_project, then process::exit(1).
\* The unwrap in remove_project panics if the directory cannot be removed.
CliRollback ==
    /\ pc = "cli_rollback"
    /\ \/ dirExists' = FALSE /\ files' = QFiles /\ Exit("Exit1")
       \/ Exit("Exit101") /\ UNCHANGED <<dirExists, files>>
    /\ UNCHANGED <<stages, srcFile, output_width, output_height, colours,
                   add_axes, original_image, processed_image, image, palette,
                   paletteSrc, quantIn, gridIn, gridLines>>

\* A new process runs the `new` subcommand on the same name, with the same
\* grid, and any image and number of colours.
CliRunNew ==
    /\ pc = "exit"
    /\ pc' = "cli_new" /\ result' = "None"
    /\ srcFile' \in SourceFiles /\ colours' \in 0..MaxPal
    /\ original_image' = None /\ processed_image' = None
    /\ image' = NoImage /\ palette' = <<>>
    /\ UNCHANGED <<stages, dirExists, files, output_width, output_height,
                   add_axes, paletteSrc, quantIn, gridIn, gridLines>>

\* main, lines 393-405: the `remove` subcommand in a new process.  It loads
\* the project first (Project::load, lines 105-152), so a directory without
\* original.png or processed.png is not removed.
CliRemove ==
    /\ pc = "exit"
    /\ original_image' = None /\ processed_image' = None
    /\ image' = NoImage /\ palette' = <<>>
    /\ pc' = "exit"
    /\ IF dirExists /\ files["original.png"] # None /\ files["processed.png"] # None
       THEN \/ dirExists' = FALSE /\ files' = QFiles /\ result' = "Exit0"
            \/ result' = "Exit101" /\ UNCHANGED <<dirExists, files>>
       ELSE result' = "Exit1" /\ UNCHANGED <<dirExists, files>>
    /\ UNCHANGED <<stages, srcFile, output_width, output_height, colours,
                   add_axes, paletteSrc, quantIn, gridIn, gridLines>>

InitCli ==
    /\ pc = "cli_new" /\ result = "None" /\ stages = <<>>
    /\ dirExists \in BOOLEAN
    /\ files = QFiles
    /\ srcFile \in SourceFiles
    /\ output_width \in 0..MaxGrid
    /\ output_height \in 0..MaxGrid
    /\ colours \in 0..MaxPal
    /\ add_axes = TRUE
    /\ original_image = None /\ processed_image = None
    /\ image = NoImage /\ palette = <<>> /\ paletteSrc = None
    /\ quantIn = None /\ gridIn = None /\ gridLines = <<<<>>, <<>>>>

NextCli ==
    \/ CliNew
    \/ CliReadImage
    \/ CliTransformImage
    \/ CliRollback
    \/ CliRunNew
    \/ CliRemove

SpecCli == InitCli /\ [][NextCli]_vars

(***************************************************************************)
(* Claims about the pipeline.                                              *)
(***************************************************************************)
ErrValues == {"ExistsAlready", "Generic", "DecodingError", "ColourReductionErr"}

OrigW == original_image[1].w
OrigH == original_image[1].h

\* C3: after quantization with requested colour count K every pixel of the
\* buffer is one of the first K entries of the extractor's palette, also
\* when the palette has more entries; with K = 1 every pixel is entry 0.
C3_FirstKEntriesOnly ==
    pc = "add_grid" =>
        /\ colours \in 1..Len(palette)
        /\ \A k \in 1..Len(image.px) : \E i \in 1..colours : image.px[k] = palette[i]
        /\ colours = 1 => \A k \in 1..Len(image.px) : image.px[k] = palette[1]

\* The palette has a second entry, different from the first, that is the
\* colour of a pixel of the quantizer's input; K = 1, and the buffer is
\* solid entry 0 all the same.
C3_Witness ==
    /\ pc = "add_grid" /\ colours = 1 /\ Len(palette) = 2
    /\ palette[1] # palette[2]
    /\ palette[2] \in Range(quantIn[1].px)
    /\ Range(image.px) = {palette[1]}

\* C5: with K = 0, or a palette of fewer than K entries, quantization
\* reports an error value to its caller and does not end abnormally.
C5_PaletteTooSmallReported ==
    (pc = "done" /\ paletteSrc # None /\ (colours = 0 \/ Len(palette) < colours)) =>
        result \in ErrValues \cup {"PaletteTooSmall"}

\* C6: with grid_width = 0 or grid_height = 0, or a grid larger than the
\* original image, transform_image fails (with InvalidDimensions; how it
\* fails is left open here) and never produces a processed image.
C6_DegenerateGridRejected ==
    (pc = "done" /\ original_image # None
        /\ (output_width = 0 \/ output_height = 0
            \/ output_width > OrigW \/ output_height > OrigH)) =>
        /\ result # "Ok"
        /\ processed_image = None

\* The down-sampled picture, and the pixel of it that pixel k of the
\* resampled buffer was copied from.
Down == files["resized_down.png"][1]
CellOf(k) == <<NearestIndex(PixelX(image, k), Down.w, image.w),
               NearestIndex(PixelY(image, k), Down.h, image.h)>>

SetMax(S) == CHOOSE m \in S : \A n \in S : n <= m
SetMin(S) == CHOOSE m \in S : \A n \in S : m <= n

\* C8: after the down-then-up resample with a valid grid the buffer has the
\* original width and height, every pixel has the colour of one pixel of
\* the grid_width x grid_height picture, the pixels copied from the same
\* one form an axis-aligned rectangle (they fill their bounding box), and
\* there are at most grid_width * grid_height such regions.
C8_MosaicBlocks ==
    (pc = "reduce_colours" /\ output_width \in 1..OrigW /\ output_height \in 1..OrigH) =>
        LET cell == [k \in 1..Len(image.px) |-> CellOf(k)]
            px == [k \in 1..Len(image.px) |-> PixelX(image, k)]
            py == [k \in 1..Len(image.px) |-> PixelY(image, k)]
        IN  /\ image.w = OrigW /\ image.h = OrigH /\ Len(image.px) = OrigW * OrigH
            /\ Down.w = output_width /\ Down.h = output_height
            /\ Len(Down.px) = output_width * output_height
            /\ \A k \in 1..Len(image.px) :
                  /\ cell[k][1] \in 0..(Down.w - 1) /\ cell[k][2] \in 0..(Down.h - 1)
                  /\ image.px[k] = Down.px[cell[k][2] * Down.w + cell[k][1] + 1]
            /\ \A c \in Range(cell) :
                  LET S == {k \in 1..Len(image.px) : cell[k] = c}
                      xs == {px[k] : k \in S}
                      ys == {py[k] : k \in S}
                  IN  Cardinality(S) = (SetMax(xs) - SetMin(xs) + 1) * (SetMax(ys) - SetMin(ys) + 1)
            /\ Cardinality(Range(cell)) <= output_width * output_height

\* A 5 x 5 picture resampled through a 3 x 3 grid: nine regions, and the
\* grid does not divide the side.
C8_Witness ==
    /\ pc = "reduce_colours" /\ OrigW = 5 /\ OrigH = 5
    /\ output_width = 3 /\ output_height = 3
    /\ Cardinality({CellOf(k) : k \in 1..Len(image.px)}) = 9
    /\ Cardinality(Range(image.px)) > 1

\* The stages of a complete run, in order.
AllStages ==
    <<"blur", "downsample", "upsample", "quantize", "grid">>
    \o (IF add_axes THEN <<"axes">> ELSE <<>>) \o <<"record">>

\* C9: the stages run at most once each and in the order blur, downsample,
\* upsample, quantize, grid, axes iff add_axes, record; a successful run has
\* run them all; and the quantizer's input and the buffer the palette was
\* extracted from are the resampled buffer.
C9_StageOrder ==
    /\ Len(stages) <= Len(AllStages)
    /\ stages = SubSeq(AllStages, 1, Len(stages))
    /\ result = "Ok" => (stages = AllStages /\ processed_image # None)
    /\ paletteSrc # None => paletteSrc = files["resized_up.png"]
    /\ quantIn # None => (quantIn = files["resized_up.png"] /\ quantIn = paletteSrc)

\* A successful run with axes whose resampled buffer is not the original.
C9_Witness ==
    /\ result = "Ok" /\ add_axes
    /\ quantIn # original_image
    /\ files["resized_up.png"] # files["original.png"]
    /\ stages = <<"blur", "downsample", "upsample", "quantize", "grid", "axes", "record">>

\* C10: whatever step of new fails, new returns an error value (never ends
\* abnormally) and processed_image is never set.  The panic on a palette
\* that is too small is C5's and is left out here.
C10_FailuresAreErrValues ==
    (pc = "done" /\ result # "Ok"
        /\ (paletteSrc = None \/ colours \in 1..Len(palette))) =>
        /\ result \in ErrValues
        /\ processed_image = None

\* The palette slice the quantizer was given, and the buffers around it.
QPal == SubSeq(palette, 1, colours)
QIn == quantIn[1].px
QOut == image.px
Quantized == pc \in {"quantize_1", "quantize_2"}

\* C1: every pixel is replaced by an entry of the palette whose squared
\* (hence Euclidean) distance to the pixel's old value is minimal over the
\* palette, the buffer keeps its size, and pixels that had equal values get
\* equal values wherever they are in the buffer.
C1_ClosestEntry ==
    Quantized =>
        /\ Len(QOut) = Len(QIn)
        /\ \A k \in 1..Len(QOut) :
              /\ QOut[k] \in Range(QPal)
              /\ \A j \in 1..Len(QPal) :
                    SquaredDistance(QOut[k], QIn[k]) <= SquaredDistance(QPal[j], QIn[k])
              /\ \A k2 \in 1..Len(QOut) : QIn[k] = QIn[k2] => QOut[k] = QOut[k2]

\* A pixel that was not a palette colour became the second entry, which is
\* strictly closer to it than the first.
C1_Witness ==
    /\ pc = "quantize_1" /\ Len(QPal) = 2
    /\ \E k \in 1..Len(QOut) :
          /\ QIn[k] \notin Range(QPal)
          /\ QOut[k] = QPal[2]
          /\ SquaredDistance(QPal[2], QIn[k]) < SquaredDistance(QPal[1], QIn[k])

\* The first index of the palette at minimal squared distance from colour o.
FirstClosest(o, pal) ==
    CHOOSE i \in 1..Len(pal) :
        /\ \A j \in 1..Len(pal) : SquaredDistance(pal[i], o) <= SquaredDistance(pal[j], o)
        /\ \A j \in 1..(i - 1) : SquaredDistance(pal[j], o) > SquaredDistance(pal[i], o)

\* C2: among the palette entries at the same minimal distance from a pixel
\* the quantizer picks the one with the smallest index.
C2_FirstIndexWinsTies ==
    Quantized => \A k \in 1..Len(QOut) : QOut[k] = QPal[FirstClosest(QIn[k], QPal)]

\* A pixel exactly equidistant between two different entries 0 and 1 (here
\* 1 and 2) became entry 0.
C2_Witness ==
    /\ pc = "quantize_1" /\ Len(QPal) = 2 /\ QPal[1] # QPal[2]
    /\ \E k \in 1..Len(QOut) :
          /\ SquaredDistance(QPal[1], QIn[k]) = SquaredDistance(QPal[2], QIn[k])
          /\ QOut[k] = QPal[1]

\* C4: quantizing a second time with the same palette changes nothing, and
\* a buffer whose pixels are all palette colours is left unchanged.
C4_Idempotent ==
    /\ pc = "quantize_2" => image = quantIn[1]
    /\ (Quantized /\ Range(QIn) \subseteq Range(QPal)) => image = quantIn[1]

\* The second pass ran on a buffer that uses both colours of a two-colour
\* palette and left it as it was.
C4_Witness ==
    /\ pc = "quantize_2" /\ Len(QPal) = 2 /\ QPal[1] # QPal[2]
    /\ Range(QIn) = Range(QPal) /\ image = quantIn[1]

\* C11: when the pipeline fails at any stage, the axis annotation included,
\* the run leaves no file processed.png in the project directory.
C11_NoProcessedFileAfterFailure ==
    (pc = "done" /\ result # "Ok" /\ stages # <<>>) => files["processed.png"] = None

\* C12: new on a name whose directory exists returns ExistsAlready at once,
\* before any image is read or transformed, and leaves the directory and
\* every file in it as they were, whatever new, load and remove_project
\* calls came before.
C12_ExistingProjectRejected ==
    [][(pc = "new" /\ dirExists) =>
          /\ pc' = "done" /\ result' = "ExistsAlready"
          /\ dirExists' /\ files' = files
          /\ original_image' = None /\ processed_image' = None
          /\ stages' = <<>> /\ image' = NoImage]_vars

\* A directory that holds the files of an earlier successful new, some of
\* them, rejected a later new and kept them.
C12_Witness ==
    /\ pc = "done" /\ result = "ExistsAlready" /\ dirExists
    /\ files["original.png"] # None /\ files["processed.png"] # None
    /\ original_image = None /\ stages = <<>>

\* A step of load: the only steps from a finished call to a result of load.
LoadStep ==
    /\ pc = "done" /\ pc' = "done"
    /\ result' \in {"Loaded", "DoesNotExist", "Generic", "DecodingError"}

\* C13: load on a name whose directory does not exist returns DoesNotExist,
\* creates nothing on disk and returns no project; a load that succeeds
\* returns a project holding both the original and the processed image.
C13_LoadMissingOrComplete ==
    [][LoadStep =>
          /\ dirExists' = dirExists /\ files' = files
          /\ ~dirExists => /\ result' = "DoesNotExist"
                           /\ original_image' = None /\ processed_image' = None
          /\ result' = "DoesNotExist" => ~dirExists
          /\ result' = "Loaded" => /\ original_image' # None
                                  /\ processed_image' # None
          /\ result' # "Loaded" => /\ original_image' = None
                                  /\ processed_image' = None]_vars

\* load on a directory that a new created and a remove_project deleted.
C13_Witness ==
    /\ pc = "done" /\ result = "DoesNotExist" /\ ~dirExists
    /\ stages = AllStages
    /\ original_image = None /\ processed_image = None

\* A step of remove_project that returns.
RemoveReturns == pc = "done" /\ pc' = "done" /\ result' = "Removed"

\* C14: when remove_project returns the project directory does not exist,
\* whether it existed before the call or not; a load that follows returns
\* DoesNotExist and a new that follows is not rejected with ExistsAlready.
C14_RemovedIsGone ==
    [][/\ RemoveReturns => (~dirExists' /\ files' = QFiles)
       /\ (result = "Removed" /\ LoadStep) => result' = "DoesNotExist"
       /\ (result = "Removed" /\ pc' = "new") => ~dirExists'
       /\ (pc = "new" /\ ~dirExists) => result' # "ExistsAlready"]_vars

\* remove_project has returned on a project that a successful new created:
\* the caller still holds the project and its directory is gone.
C14_Witness ==
    /\ pc = "done" /\ result = "Removed" /\ ~dirExists
    /\ stages = AllStages /\ original_image # None /\ processed_image # None

\* The buffer add_grid_to_image received, and the pixels on a grid line.
BeforeGrid == gridIn[1]
OnGridLine(k) ==
    \/ PixelY(image, k) \in Range(gridLines[1])
    \/ PixelX(image, k) \in Range(gridLines[2])

\* C15: the grid overlay keeps the dimensions of the image, turns the pixels
\* on the grid lines black and leaves every other pixel as it was; on the
\* solid red 100 x 100 picture with a 5 x 5 grid the lines are at 0, 20, 40,
\* 60, 80 in both directions and everything else is red.
C15_OnlyGridLinesChange ==
    GridDrawn =>
        /\ image.w = BeforeGrid.w /\ image.h = BeforeGrid.h
        /\ Len(image.px) = Len(BeforeGrid.px)
        /\ \A k \in 1..Len(image.px) :
              image.px[k] = IF OnGridLine(k) THEN Black ELSE BeforeGrid.px[k]
        /\ (BeforeGrid = SolidRed /\ output_width = 5 /\ output_height = 5) =>
              /\ gridLines = <<(<<0, 20, 40, 60, 80>>), (<<0, 20, 40, 60, 80>>)>>
              /\ \A k \in 1..Len(image.px) :
                    image.px[k] = IF PixelX(image, k) % 20 = 0 \/ PixelY(image, k) % 20 = 0
                                  THEN Black ELSE ImgColours[1]

\* The scenario: the solid red picture came unchanged out of the quantizer
\* and has got its 5 x 5 grid, 975 black pixels.
C15_Witness ==
    /\ GridDrawn /\ BeforeGrid = SolidRed /\ ScenarioPicture = SolidRed
    /\ output_width = 5 /\ output_height = 5
    /\ Cardinality({k \in 1..Len(image.px) : image.px[k] = Black}) = 975
    /\ Range(image.px) = {Black, ImgColours[1]}

\* C16: in the `new` subcommand, whenever read_image or transform_image
\* fails after the project directory was created, the directory is removed
\* before the process exits with failure: such a failure never ends the
\* process directly, and the exit(1) that follows the removal leaves no
\* directory, so that a later `new` on the name is not rejected.
C16_CliRollsBack ==
    [][/\ (pc \in {"cli_read_image", "cli_transform"} /\ pc' = "exit" /\ result' # "Exit0")
            => ~dirExists'
       /\ (pc = "cli_rollback" /\ result' = "Exit1") => ~dirExists']_vars

\* C17: a load that directly follows a successful new (add_axes true or
\* false) succeeds and returns the original image data and the processed
\* image data that the project returned by new holds in memory.
C17_LoadReturnsWhatNewHolds ==
    [][(result = "Ok" /\ LoadStep) =>
          /\ result' = "Loaded"
          /\ original_image' = original_image
          /\ processed_image' = processed_image]_vars

\* C18: new does not roll back.  When read_image or transform_image fails,
\* the directory that new created stays, and as long as it is there every
\* further new on the name returns ExistsAlready.
C18_NoRollbackInNew ==
    [][/\ (pc \notin {"new", "done"} /\ pc' = "done" /\ result' # "Ok") => dirExists'
       /\ pc \notin {"new", "done"} => (dirExists /\ dirExists')
       /\ (pc = "new" /\ dirExists) => result' = "ExistsAlready"
       /\ (dirExists /\ ~dirExists') => result' = "Removed"]_vars

\* A new failed in transform_image and left the directory with original.png
\* and no processed.png; the next new on the name was rejected.
C18_Witness ==
    /\ pc = "done" /\ result = "ExistsAlready" /\ dirExists
    /\ files["original.png"] # None /\ files["processed.png"] = None
    /\ original_image = None
====
